---------------------------- MODULE Spec2Model ----------------------------
(***************************************************************************)
(* Model of scripts/migrate-1.4.py: the rewriter migrate_file applies to a *)
(* file's text (str.replace, then two re.sub calls) and the loop that      *)
(* drives it over the literal list `files`.                                *)
(*                                                                         *)
(* A text is a sequence of one-character strings.  The two regular         *)
(* expressions are evaluated character by character, the way Python's      *)
(* backtracking matcher evaluates them.                                    *)
(***************************************************************************)
EXTENDS Naturals, Sequences, FiniteSets, TLC

VARIABLES
    fs,        \* the file system: path -> [exists, data]
    fs0,       \* history: the file system when the script started
    idx,       \* position of the loop in `files`
    pc,        \* the statement the script is at ("done", "error": it has ended)
    content,   \* migrate_file's local `content`
    original,  \* migrate_file's local `original`
    prev,      \* history: `content` before the last rewrite step
    changed,   \* the value migrate_file returned
    out,       \* the lines printed so far
    io         \* history: the file-system calls made so far

vars == <<fs, fs0, idx, pc, content, original, prev, changed, out, io>>

---------------------------------------------------------------------------
\* Bounds of the model.

\* Longest run of blanks between two tokens of a generated input line.
MaxWs == 2

\* Number of paths in the list the loop walks (the script lists 13).
MaxFiles == 3

---------------------------------------------------------------------------
\* Character classes of Python's re module.

\* \s on a str pattern (the ASCII members that a TLA+ string can spell).
IsSpace(c) == c \in {" ", "\t", "\n", "\r", "\f"}

\* The class ["\'].
IsQuote(c) == c \in {"\"", "'"}

\* `.` without re.DOTALL: any character but the newline.
IsDot(c) == c # "\n"

\* The literal w occurs in s at position i.
LitAt(s, i, w) ==
    /\ i >= 1
    /\ i + Len(w) - 1 <= Len(s)
    /\ SubSeq(s, i, i + Len(w) - 1) = w

\* A greedy \s* from position i: the position after the run.  The token that
\* follows \s* or \s+ in both patterns starts with a non-blank, so the run
\* the matcher settles on is always the maximal one.
RECURSIVE SkipSpace(_, _)
SkipSpace(s, i) ==
    IF i <= Len(s) /\ IsSpace(s[i]) THEN SkipSpace(s, i + 1) ELSE i

\* A greedy \S* from position i: the position after the run.
RECURSIVE SkipNonSpace(_, _)
SkipNonSpace(s, i) ==
    IF i <= Len(s) /\ ~IsSpace(s[i]) THEN SkipNonSpace(s, i + 1) ELSE i

\* ^ under re.MULTILINE: the start of the text or just after a newline.
AtLineStart(s, i) == i = 1 \/ s[i - 1] = "\n"

\* [Ee]xtend at position i.
KeywordAt(s, i) ==
    /\ i <= Len(s)
    /\ s[i] \in {"e", "E"}
    /\ LitAt(s, i + 1, <<"x", "t", "e", "n", "d">>)

KeywordLen == Len(<<"e", "x", "t", "e", "n", "d">>)

NoMatch == [ok |-> FALSE]

---------------------------------------------------------------------------
\* Step 1: content.replace('version 1.3', 'version 1.4')

Version13 == <<"v", "e", "r", "s", "i", "o", "n", " ", "1", ".", "3">>
Version14 == <<"v", "e", "r", "s", "i", "o", "n", " ", "1", ".", "4">>

\* str.replace scans left to right and replaces non-overlapping occurrences.
RECURSIVE ReplaceFrom(_, _)
ReplaceFrom(s, i) ==
    IF i > Len(s) THEN <<>>
    ELSE IF LitAt(s, i, Version13)
         THEN Version14 \o ReplaceFrom(s, i + Len(Version13))
         ELSE <<s[i]>> \o ReplaceFrom(s, i + 1)

\* str.replace(old, new, 1): only the first occurrence.
RECURSIVE ReplaceFirstFrom(_, _)
ReplaceFirstFrom(s, i) ==
    IF i > Len(s) THEN <<>>
    ELSE IF LitAt(s, i, Version13)
         THEN Version14 \o SubSeq(s, i + Len(Version13), Len(s))
         ELSE <<s[i]>> \o ReplaceFirstFrom(s, i + 1)

ReplaceVersionFirstOnly(s) == ReplaceFirstFrom(s, 1)

ReplaceVersion(s) == ReplaceFrom(s, 1)

---------------------------------------------------------------------------
\* Step 2: re.sub(r'^(\s*)[Ee]xtend\s+(\S+)\s+as\s+(\S+)(\s*\{)?', replace_extend,
\*                content, flags=re.MULTILINE)

\* One attempt of the pattern at position i.  Group 3, (\S+), is greedy and
\* group 4 is optional, so the first success has group 3 maximal.
MatchDecl(s, i) ==
    LET p1 == SkipSpace(s, i)
        p2 == p1 + KeywordLen
        p3 == SkipSpace(s, p2)
        p4 == SkipNonSpace(s, p3)
        p5 == SkipSpace(s, p4)
        p6 == p5 + 2
        p7 == SkipSpace(s, p6)
        p8 == SkipNonSpace(s, p7)
        p9 == SkipSpace(s, p8)
        brace == p9 <= Len(s) /\ s[p9] = "{"
    IN  IF /\ AtLineStart(s, i)
           /\ KeywordAt(s, p1)
           /\ p3 > p2
           /\ p4 > p3
           /\ p5 > p4
           /\ LitAt(s, p5, <<"a", "s">>)
           /\ p7 > p6
           /\ p8 > p7
        THEN [ok     |-> TRUE,
              prefix |-> SubSeq(s, i, p1 - 1),
              source |-> SubSeq(s, p3, p4 - 1),
              name   |-> SubSeq(s, p7, p8 - 1),
              suffix |-> IF brace THEN SubSeq(s, p8, p9) ELSE <<>>,
              end    |-> IF brace THEN p9 + 1 ELSE p8]
        ELSE NoMatch

\* f"{prefix}tool {name} from {source}{suffix}"
replace_extend(m) ==
    m.prefix \o <<"t", "o", "o", "l", " ">> \o m.name
             \o <<" ", "f", "r", "o", "m", " ">> \o m.source \o m.suffix

\* re.sub: leftmost non-overlapping matches, the text between them copied.
RECURSIVE SubDeclFrom(_, _)
SubDeclFrom(s, i) ==
    IF i > Len(s) THEN <<>>
    ELSE LET m == MatchDecl(s, i)
         IN  IF m.ok
             THEN replace_extend(m) \o SubDeclFrom(s, m.end)
             ELSE <<s[i]>> \o SubDeclFrom(s, i + 1)

SubDecl(s) == SubDeclFrom(s, 1)

---------------------------------------------------------------------------
\* Step 3: re.sub(r'(["\'])[Ee]xtend\s+(\S+)\s+as\s+(\S+)(.*?["\'])',
\*                replace_extend_in_string, content)

\* The lazy .*?["\'] from position j: the position of the first quote that
\* only non-newline characters separate from j, or 0 when there is none.
RECURSIVE CloseAt(_, _)
CloseAt(s, j) ==
    IF j > Len(s) THEN 0
    ELSE IF IsQuote(s[j]) THEN j
    ELSE IF IsDot(s[j]) THEN CloseAt(s, j + 1)
    ELSE 0

\* Group 3, (\S+), backtracks from its longest run (ending before e) down to
\* one character (ending before lo + 1) until group 4 can match behind it.
RECURSIVE NameEnd(_, _, _)
NameEnd(s, lo, e) ==
    IF e <= lo THEN 0
    ELSE IF CloseAt(s, e) # 0 THEN e
    ELSE NameEnd(s, lo, e - 1)

MatchQuoted(s, i) ==
    LET p2 == i + 1 + KeywordLen
        p3 == SkipSpace(s, p2)
        p4 == SkipNonSpace(s, p3)
        p5 == SkipSpace(s, p4)
        p6 == p5 + 2
        p7 == SkipSpace(s, p6)
        p8 == NameEnd(s, p7, SkipNonSpace(s, p7))
        q  == CloseAt(s, p8)
    IN  IF /\ IsQuote(s[i])
           /\ KeywordAt(s, i + 1)
           /\ p3 > p2
           /\ p4 > p3
           /\ p5 > p4
           /\ LitAt(s, p5, <<"a", "s">>)
           /\ p7 > p6
           /\ p8 # 0
        THEN [ok     |-> TRUE,
              quote  |-> <<s[i]>>,
              source |-> SubSeq(s, p3, p4 - 1),
              name   |-> SubSeq(s, p7, p8 - 1),
              rest   |-> SubSeq(s, p8, q),
              end    |-> q + 1]
        ELSE NoMatch

\* f'{quote}tool {name} from {source}{rest}'
replace_extend_in_string(m) ==
    m.quote \o <<"t", "o", "o", "l", " ">> \o m.name
            \o <<" ", "f", "r", "o", "m", " ">> \o m.source \o m.rest

RECURSIVE SubQuotedFrom(_, _)
SubQuotedFrom(s, i) ==
    IF i > Len(s) THEN <<>>
    ELSE LET m == MatchQuoted(s, i)
         IN  IF m.ok
             THEN replace_extend_in_string(m) \o SubQuotedFrom(s, m.end)
             ELSE <<s[i]>> \o SubQuotedFrom(s, i + 1)

SubQuoted(s) == SubQuotedFrom(s, 1)

\* The three steps of migrate_file in the order it applies them.
Rewrite(s) == SubQuoted(SubDecl(ReplaceVersion(s)))

---------------------------------------------------------------------------
\* The file system and the literal list the loop walks.

\* Paths are numbered; the last one is a file that `files` does not list.
Paths == 1 .. (MaxFiles + 1)

files == [k \in 1 .. MaxFiles |-> k]

Missing == [exists |-> FALSE, data |-> <<>>]

File(x) == [exists |-> TRUE, data |-> x]

\* os.path.exists(f)
Exists(fsys, p) == fsys[p].exists

\* The comparison dropped: the file is written back whatever the text.
DiffersAlways(c, o) == TRUE

\* content != original
Differs(c, o) == c # o

\* The three lines print can emit for a path.
Line(tag, p) == [tag |-> tag, path |-> p]

\* The line put before the lines already out.
EmitFirst(o, line) == <<line>> \o o

\* print appends one line to standard output.
Emit(o, line) == Append(o, line)

\* One entry of the log of file-system calls: os.path.exists, open(.., 'r')
\* with read, open(.., 'w') with write; ok is FALSE when the call raised.
Call(op, p, ok) == [op |-> op, path |-> p, ok |-> ok]

---------------------------------------------------------------------------
\* Input texts.

Spaces(n) == [k \in 1 .. n |-> " "]

\* Blank runs between tokens: one to MaxWs spaces, or a line break.
Seps == {Spaces(n) : n \in 1 .. MaxWs} \cup {<<"\n">>}

Leads ==
    { <<>>,
      <<" ", " ">>,
      <<"\n">>,
      <<"\"">>,
      <<"'">>,
      <<"x", " ">>,
      <<"v", "e", "r", "s", "i", "o", "n", " ", "1", ".", "3", "\n">> }

Keywords ==
    { <<"e", "x", "t", "e", "n", "d">>,
      <<"E", "x", "t", "e", "n", "d">>,
      <<"E", "X", "T", "E", "N", "D">>,
      <<"e", "X", "t", "e", "n", "d">>,
      <<"e", "x", "t", "e", "n", "d", "a", "b", "l", "e">> }

Sources == { <<"a">>, <<"a", "s">>, <<"v", "e", "r", "s", "i", "o", "n">> }

Names == { <<"b">>, <<"v", "e", "r", "s", "i", "o", "n">> }

Tails ==
    {w \o <<"{">> : w \in Seps \cup {<<>>}} \cup
    { <<>>,
      <<" ", "1", ".", "3">>,
      <<" ", "1", ".", "4">>,
      <<" ", "1", ".", "3", " ", "v", "e", "r", "s", "i", "o", "n", " ", "1", ".", "4">>,
      <<"\"">>,
      <<"\"", " ", "\"", "c", "\"">>,
      <<" ", "f", "a", "i", "l", "e", "d", "\"">>,
      <<"\n", "e", "x", "t", "e", "n", "d", " ", "a", " ", "a", "s", " ", "b">> }

\* <lead><keyword><blanks><source><blanks>as<blanks><name><tail>
GeneratedInputs ==
    { lead \o kw \o w1 \o src \o w2 \o <<"a", "s">> \o w2 \o name \o tail :
        lead \in Leads, kw \in Keywords, w1 \in Seps, src \in Sources,
        w2 \in Seps, name \in Names, tail \in Tails }

\* The example lines of the specification's testable properties.
ExampleNoBrace ==
    <<"e", "x", "t", "e", "n", "d", " ", "g", "i", "t", "h", "u", "b", "-",
      "a", "p", "i", " ", "a", "s", " ", "g", "h">>

ExampleBrace ==
    <<" ", " ", "E", "x", "t", "e", "n", "d", " ", " ", " ", ".", "/", "l",
      "o", "c", "a", "l", ".", "b", "r", "i", "d", "g", "e", " ", " ", " ",
      "a", "s", " ", " ", " ", "l", "o", "c", "a", "l", " ", " ", " ", "{">>

ExampleLiteral ==
    <<"\"", "e", "x", "t", "e", "n", "d", " ", "w", "e", "a", "t", "h", "e",
      "r", "T", "o", "o", "l", " ", "a", "s", " ", "w", "e", "a", "t", "h",
      "e", "r", " ", "f", "a", "i", "l", "e", "d", "\"">>

ExampleExtendable ==
    <<"e", "x", "t", "e", "n", "d", "a", "b", "l", "e", " ", "a", "s", " ",
      "X">>

Inputs ==
    GeneratedInputs \cup
    {ExampleNoBrace, ExampleBrace, ExampleLiteral, ExampleExtendable}

\* The texts the files of the driver runs hold: one per rewrite step, and
\* one already in 1.4 syntax.
DriverTexts ==
    { Version13,
      <<"e", "x", "t", "e", "n", "d", " ", "a", " ", "a", "s", " ", "b">>,
      <<"\"", "e", "x", "t", "e", "n", "d", " ", "a", " ", "a", "s", " ", "b",
        "\"">>,
      <<"t", "o", "o", "l", " ", "b", " ", "f", "r", "o", "m", " ", "a">> }

---------------------------------------------------------------------------
\* migrate_file, statement by statement.

\* The path the loop is at.
f == files[idx]

\* content = content.replace('version 1.3', 'version 1.4')
VersionSub ==
    /\ pc = "version"
    /\ prev' = content
    /\ content' = ReplaceVersion(content)
    /\ pc' = "decl"
    /\ UNCHANGED <<fs, fs0, idx, original, changed, out, io>>

\* content = re.sub(<declaration pattern>, replace_extend, content, MULTILINE)
DeclSub ==
    /\ pc = "decl"
    /\ prev' = content
    /\ content' = SubDecl(content)
    /\ pc' = "quoted"
    /\ UNCHANGED <<fs, fs0, idx, original, changed, out, io>>

\* content = re.sub(<quoted pattern>, replace_extend_in_string, content)
QuotedSub ==
    /\ pc = "quoted"
    /\ prev' = content
    /\ content' = SubQuoted(content)
    /\ pc' = "write"
    /\ UNCHANGED <<fs, fs0, idx, original, changed, out, io>>

\* if content != original: open(filepath, 'w'), f.write(content), return True
WriteBack ==
    /\ pc = "write"
    /\ Differs(content, original)
    /\ fs' = [fs EXCEPT ![f] = File(content)]
    /\ io' = Append(io, Call("write", f, TRUE))
    /\ changed' = TRUE
    /\ pc' = "report"
    /\ UNCHANGED <<fs0, idx, content, original, prev, out>>

\* The same statement when open or write raises: nothing catches the error.
\* The file keeps its text if open raised, and holds a prefix of the new text
\* if open truncated it and the write did not complete.
WriteFails ==
    /\ pc = "write"
    /\ Differs(content, original)
    /\ \E d \in {original} \cup {SubSeq(content, 1, n) : n \in 0 .. Len(content)} :
          fs' = [fs EXCEPT ![f] = File(d)]
    /\ io' = Append(io, Call("write", f, FALSE))
    /\ pc' = "error"
    /\ UNCHANGED <<fs0, idx, content, original, prev, changed, out>>

\* content == original: return False
NoWrite ==
    /\ pc = "write"
    /\ ~Differs(content, original)
    /\ changed' = FALSE
    /\ pc' = "report"
    /\ UNCHANGED <<fs, fs0, idx, content, original, prev, out, io>>

---------------------------------------------------------------------------
\* The loop over `files`.

\* A missing path makes the run fail (open on it would raise).
NotFoundRaises ==
    /\ pc = "loop"
    /\ idx <= Len(files)
    /\ ~Exists(fs, f)
    /\ io' = Append(io, Call("exists", f, TRUE))
    /\ pc' = "error"
    /\ UNCHANGED <<fs, fs0, idx, content, original, prev, changed, out>>

\* os.path.exists(f) is false: print NOT FOUND and go on with the next path.
NotFound ==
    /\ pc = "loop"
    /\ idx <= Len(files)
    /\ ~Exists(fs, f)
    /\ io' = Append(io, Call("exists", f, TRUE))
    /\ out' = Emit(out, Line("NOT FOUND", f))
    /\ idx' = idx + 1
    /\ UNCHANGED <<fs, fs0, pc, content, original, prev, changed>>

\* os.path.exists(f) is true: migrate_file opens the file and reads it.
Read ==
    /\ pc = "loop"
    /\ idx <= Len(files)
    /\ Exists(fs, f)
    /\ io' = io \o <<Call("exists", f, TRUE), Call("read", f, TRUE)>>
    /\ content' = fs[f].data
    /\ original' = fs[f].data
    /\ prev' = fs[f].data
    /\ pc' = "version"
    /\ UNCHANGED <<fs, fs0, idx, changed, out>>

\* A failed read is swallowed and the loop goes on with the next path.
ReadFailsSkipped ==
    /\ pc = "loop"
    /\ idx <= Len(files)
    /\ Exists(fs, f)
    /\ io' = io \o <<Call("exists", f, TRUE), Call("read", f, FALSE)>>
    /\ idx' = idx + 1
    /\ UNCHANGED <<fs, fs0, pc, content, original, prev, changed, out>>

\* open or read raises: nothing catches the error and the script ends.
ReadFails ==
    /\ pc = "loop"
    /\ idx <= Len(files)
    /\ Exists(fs, f)
    /\ io' = io \o <<Call("exists", f, TRUE), Call("read", f, FALSE)>>
    /\ pc' = "error"
    /\ UNCHANGED <<fs, fs0, idx, content, original, prev, changed, out>>

\* print the line for what migrate_file returned; the locals go out of scope.
Report ==
    /\ pc = "report"
    /\ out' = Emit(out, Line(IF changed THEN "migrated" ELSE "no change", f))
    /\ idx' = idx + 1
    /\ pc' = "loop"
    /\ content' = <<>>
    /\ original' = <<>>
    /\ prev' = <<>>
    /\ changed' = FALSE
    /\ UNCHANGED <<fs, fs0, io>>

\* The list is exhausted: the script ends normally.
Finish ==
    /\ pc = "loop"
    /\ idx > Len(files)
    /\ pc' = "done"
    /\ UNCHANGED <<fs, fs0, idx, content, original, prev, changed, out, io>>

\* Every path is missing or holds one of the driver texts; nothing has run.
Init ==
    /\ fs0 \in [Paths -> {Missing} \cup {File(x) : x \in DriverTexts}]
    /\ fs = fs0
    /\ idx = 1
    /\ pc = "loop"
    /\ content = <<>>
    /\ original = <<>>
    /\ prev = <<>>
    /\ changed = FALSE
    /\ out = <<>>
    /\ io = <<>>

Next ==
    \/ NotFound
    \/ Read
    \/ ReadFails
    \/ VersionSub
    \/ DeclSub
    \/ QuotedSub
    \/ WriteBack
    \/ WriteFails
    \/ NoWrite
    \/ Report
    \/ Finish

\* A run of the script.
Spec == Init /\ [][Next]_vars

---------------------------------------------------------------------------
\* The rewriter on its own.

\* The state of migrate_file once it has read text x from the first path.
AfterRead(x) ==
    /\ fs0 = [p \in Paths |-> IF p = 1 THEN File(x) ELSE Missing]
    /\ fs = fs0
    /\ idx = 1
    /\ pc = "version"
    /\ content = x
    /\ original = x
    /\ prev = x
    /\ changed = FALSE
    /\ out = <<>>
    /\ io = <<Call("exists", 1, TRUE), Call("read", 1, TRUE)>>

InitRewriter == \E x \in Inputs : AfterRead(x)

NextRewriter == VersionSub \/ DeclSub \/ QuotedSub

\* The rewriter alone, on every input text.
SpecRewriter == InitRewriter /\ [][NextRewriter]_vars

---------------------------------------------------------------------------
\* Properties of the driver.

\* Positions of the log that are call op on path p.
Calls(op, p) == {j \in 1 .. Len(io) : io[j].op = op /\ io[j].path = p}

\* Some file-system call of the run has raised.
Failed == \E j \in 1 .. Len(io) : ~io[j].ok

Listed == {files[k] : k \in 1 .. Len(files)}

\* What a complete pass over path p leaves in the file system, and the line
\* it prints, by the text the file held when the run began.
FinalFile(p) ==
    IF fs0[p].exists THEN File(Rewrite(fs0[p].data)) ELSE Missing

Outcome(p) ==
    IF ~fs0[p].exists THEN "NOT FOUND"
    ELSE IF Rewrite(fs0[p].data) # fs0[p].data THEN "migrated"
    ELSE "no change"

\* migrate_file has returned for the k-th path, or is about to return.
Decided(k) == k < idx \/ (k = idx /\ pc = "report")

\* C6: in a run without I/O failure, an existing listed file is written if
\* and only if the rewritten text differs from the text read; a written file
\* holds the rewritten text and is reported migrated, an unwritten file is
\* byte-identical and reported no change; a file that is not listed is
\* never read or written.
ConditionalWrite ==
    ~Failed =>
        /\ \A k \in 1 .. Len(files) :
              (Decided(k) /\ fs0[files[k]].exists) =>
                 LET p == files[k]
                     x == fs0[p].data
                     y == Rewrite(x)
                 IN  /\ Cardinality(Calls("write", p)) = (IF y # x THEN 1 ELSE 0)
                     /\ Cardinality(Calls("read", p)) = 1
                     /\ y # x => fs[p] = File(y)
                     /\ y = x => fs[p] = fs0[p]
                     /\ k < idx =>
                           out[k] = Line(IF y # x THEN "migrated" ELSE "no change", p)
        /\ \A p \in Paths \ Listed :
              /\ fs[p] = fs0[p]
              /\ \A j \in 1 .. Len(io) : io[j].path # p

\* A finished run that wrote one file and left another existing file alone.
ConditionalWriteWitness ==
    /\ pc = "done"
    /\ \E k1, k2 \in 1 .. Len(out) :
          /\ out[k1].tag = "migrated"
          /\ Calls("write", files[k1]) # {}
          /\ out[k2].tag = "no change"
          /\ Calls("write", files[k2]) = {}

\* C7: a listed path that does not exist is neither read nor written, is
\* reported NOT FOUND, raises no error, and the loop goes on: every existing
\* path after it is still processed.
SkipOnMissing ==
    /\ \A k \in 1 .. Len(files) :
          (k < idx /\ ~fs0[files[k]].exists) =>
             /\ out[k] = Line("NOT FOUND", files[k])
             /\ Calls("read", files[k]) = {}
             /\ Calls("write", files[k]) = {}
             /\ fs[files[k]] = Missing
    /\ pc = "error" => fs0[files[idx]].exists
    /\ (pc = "loop" /\ idx <= Len(files)) => ENABLED (NotFound \/ Read)
    /\ pc = "done" =>
          \A k \in 1 .. Len(files) :
             fs0[files[k]].exists => Calls("read", files[k]) # {}

\* A finished run in which an existing path follows a missing one.
SkipOnMissingWitness ==
    /\ pc = "done"
    /\ \E k1, k2 \in 1 .. Len(files) :
          /\ k1 < k2
          /\ ~fs0[files[k1]].exists
          /\ out[k1].tag = "NOT FOUND"
          /\ fs0[files[k2]].exists
          /\ Calls("read", files[k2]) # {}

\* C8 as stated: no report line is emitted while a listed path is still
\* unprocessed.
ReportAfterAllPaths == Len(out) > 0 => idx > Len(files)

\* C8 as amended: the line of a path is emitted as soon as that path has been
\* processed and before the next path is examined; at every moment there is
\* exactly one line, in list order, for each path processed so far, stating
\* the path and its outcome, and a run that completes has emitted one line
\* for every listed path.
ReportAsProcessed ==
    /\ Len(out) = idx - 1
    /\ \A k \in 1 .. Len(out) : out[k] = Line(Outcome(files[k]), files[k])
    /\ pc = "done" => Len(out) = Len(files)

\* A path is being processed while the lines of two earlier paths are out.
ReportAsProcessedWitness ==
    /\ pc = "version"
    /\ idx <= Len(files)
    /\ Len(out) >= 2
    /\ out[1].tag # out[2].tag

\* C9: a failed read or write of an existing listed file is not caught: the
\* run ends in the error state at that path; no later path is checked for
\* existence, read, written or reported; the paths processed before keep the
\* text and the report line they had received.
IOFailureAborts ==
    /\ \A j \in 1 .. Len(io) : ~io[j].ok => (j = Len(io) /\ pc = "error")
    /\ pc = "error" =>
          /\ Failed
          /\ io[Len(io)].path = files[idx]
          /\ ~ENABLED Next
          /\ Len(out) = idx - 1
          /\ \A k \in 1 .. Len(files) :
                /\ k > idx =>
                      /\ fs[files[k]] = fs0[files[k]]
                      /\ \A j \in 1 .. Len(io) : io[j].path # files[k]
                /\ k < idx =>
                      /\ fs[files[k]] = FinalFile(files[k])
                      /\ out[k] = Line(Outcome(files[k]), files[k])

\* A run that failed between a migrated file and an existing later file.
IOFailureAbortsWitness ==
    /\ pc = "error"
    /\ idx > 1
    /\ idx < Len(files)
    /\ out[idx - 1].tag = "migrated"
    /\ fs0[files[idx + 1]].exists

---------------------------------------------------------------------------
\* Properties of the rewriter.

\* The positions at which the literal w occurs in s.
Occurs(s, w) == {i \in 1 .. Len(s) : LitAt(s, i, w)}

\* s.split('\n')
RECURSIVE SplitFrom(_, _, _)
SplitFrom(s, i, cur) ==
    IF i > Len(s) THEN <<cur>>
    ELSE IF s[i] = "\n" THEN <<cur>> \o SplitFrom(s, i + 1, <<>>)
    ELSE SplitFrom(s, i + 1, Append(cur, s[i]))

Lines(s) == SplitFrom(s, 1, <<>>)

\* The line l, taken by itself, has the declaration form.
IsDeclLine(l) == MatchDecl(l, 1).ok

\* The form the specification gives a declaration line: single blanks
\* between the tokens, then " {" if the line had a brace, then what followed.
NormalForm(l) ==
    LET m == MatchDecl(l, 1)
    IN  m.prefix \o <<"t", "o", "o", "l", " ">> \o m.name
                 \o <<" ", "f", "r", "o", "m", " ">> \o m.source
                 \o (IF m.suffix # <<>> THEN <<" ", "{">> ELSE <<>>)
                 \o SubSeq(l, m.end, Len(l))

\* The tokens <keyword> <source> as <name> start at position i of s.
DeclTokensAt(s, i) ==
    LET p2 == i + KeywordLen
        p3 == SkipSpace(s, p2)
        p4 == SkipNonSpace(s, p3)
        p5 == SkipSpace(s, p4)
        p6 == p5 + 2
        p7 == SkipSpace(s, p6)
    IN  /\ KeywordAt(s, i)
        /\ p3 > p2
        /\ p4 > p3
        /\ p5 > p4
        /\ LitAt(s, p5, <<"a", "s">>)
        /\ p7 > p6
        /\ p7 <= Len(s)

\* The quotes of s that open a literal starting with the declaration form.
DeclLiterals(s) == {i \in 1 .. Len(s) : IsQuote(s[i]) /\ DeclTokensAt(s, i + 1)}

\* C1: the rewriter is idempotent: rewriting its own output changes nothing.
Idempotent == pc = "write" => Rewrite(content) = content

\* C2 as stated: every `version 1.3` and every `version 1.4` of the input is
\* a `version 1.4` of the final output.
VersionTagsSurvive ==
    pc = "write" =>
        Cardinality(Occurs(content, Version14)) >=
            Cardinality(Occurs(original, Version13))
                + Cardinality(Occurs(original, Version14))

\* C2 as amended: the output of the version substitution step has
\* `version 1.4` exactly where its input had `version 1.3` or `version 1.4`,
\* has no `version 1.3`, and differs from its input only in the last
\* character of each `version 1.3`.
VersionSubstitution ==
    pc = "decl" =>
        /\ Occurs(content, Version13) = {}
        /\ Occurs(content, Version14) =
              Occurs(prev, Version13) \cup Occurs(prev, Version14)
        /\ Len(content) = Len(prev)
        /\ \A i \in 1 .. Len(prev) :
              content[i] # prev[i] =>
                 (i + 1 - Len(Version13)) \in Occurs(prev, Version13)

\* The step has run on a text with two `version 1.3` and a `version 1.4`.
VersionSubstitutionWitness ==
    /\ pc = "decl"
    /\ Cardinality(Occurs(prev, Version13)) >= 2
    /\ Occurs(prev, Version14) # {}
    /\ content # prev

\* C3: every line of declaration form comes out of the declaration rewrite as
\* <indent>tool <name> from <source>, single blanks between the tokens,
\* followed by " {" if the line had a brace.
DeclarationNormalised ==
    pc = "quoted" =>
        LET old == Lines(prev)
            new == Lines(content)
        IN  Len(new) = Len(old) =>
               \A k \in 1 .. Len(old) :
                  IsDeclLine(old[k]) => new[k] = NormalForm(old[k])

\* C4: a quoted literal (closed by the quote that opens it) that starts with
\* the declaration form is rewritten between its quotes: the name stops before the closing quote, the text from
\* the name to the closing quote follows the rewritten tokens, and the text
\* after the closing quote stays as it was.
QuotedLiteralKept ==
    pc = "write" =>
        \A i \in DeclLiterals(prev) :
           LET p3 == SkipSpace(prev, i + 1 + KeywordLen)
               p4 == SkipNonSpace(prev, p3)
               p7 == SkipSpace(prev, SkipSpace(prev, p4) + 2)
               e  == CHOOSE j \in p7 .. Len(prev) + 1 :
                        /\ j > Len(prev) \/ IsSpace(prev[j]) \/ IsQuote(prev[j])
                        /\ \A h \in p7 .. j - 1 :
                              ~IsSpace(prev[h]) /\ ~IsQuote(prev[h])
               q  == CloseAt(prev, e)
           IN  (DeclLiterals(prev) = {i} /\ e > p7 /\ q # 0 /\ prev[q] = prev[i]) =>
                  content = SubSeq(prev, 1, i)
                               \o <<"t", "o", "o", "l", " ">>
                               \o SubSeq(prev, p7, e - 1)
                               \o <<" ", "f", "r", "o", "m", " ">>
                               \o SubSeq(prev, p3, p4 - 1)
                               \o SubSeq(prev, e, Len(prev))

\* C5: a text with no `version 1.3`, no line of declaration form and no
\* quoted literal starting with the declaration form is returned unchanged.
Passthrough ==
    pc = "write" =>
        ( ( /\ Occurs(original, Version13) = {}
            /\ \A k \in 1 .. Len(Lines(original)) :
                  ~IsDeclLine(Lines(original)[k])
            /\ DeclLiterals(original) = {} )
          => content = original )

\* C10: the declaration rewrite keeps the number of lines, leaves every line
\* that is not of declaration form by itself as it was, and rewrites every
\* line that is.
LineByLine ==
    pc = "quoted" =>
        LET old == Lines(prev)
            new == Lines(content)
        IN  /\ Len(new) = Len(old)
            /\ \A k \in 1 .. Len(old) :
                  IF IsDeclLine(old[k])
                  THEN new[k] # old[k]
                  ELSE new[k] = old[k]

===========================================================================
